---- MODULE Spec2Model ----
(***************************************************************************)
(* Model of the prompt-optimizer session and orchestration engine:          *)
(*   - the API route (src/app/api/gemini/route.ts): validation, prompt      *)
(*     selection, generateWithRetry, parseResponse, sanitizeSuggestions,    *)
(*     error mapping;                                                       *)
(*   - the client session store (src/app/components/PromptOptimizer.tsx     *)
(*     and src/app/page.tsx): message list, debounced auto-save, session    *)
(*     index with eviction, coaching state, rename/delete/reorder.          *)
(* Strings are modelled as sequences of lexical tokens, so that trimming,   *)
(* fence stripping and JSON decoding are computed, not assumed.             *)
(***************************************************************************)
EXTENDS Integers, Sequences, FiniteSets, TLC

(***************************************************************************)
(* Generic sequence helpers                                                 *)
(***************************************************************************)
RECURSIVE DropWhileWs(_)
DropWhileWs(s) ==
  IF s # <<>> /\ Head(s) = "ws" THEN DropWhileWs(Tail(s)) ELSE s

RECURSIVE DropTrailingWs(_)
DropTrailingWs(s) ==
  IF s # <<>> /\ s[Len(s)] = "ws"
    THEN DropTrailingWs(SubSeq(s, 1, Len(s) - 1))
    ELSE s

\* String.prototype.trim on a token string
Trim(s) == DropTrailingWs(DropWhileWs(s))

Front(s) == SubSeq(s, 1, Len(s) - 1)

(***************************************************************************)
(* JSON values and JSON.parse                                               *)
(***************************************************************************)
\* A raw suggestion entry of a decoded object: a string or a non-string.
SugStr(chars) == [str |-> TRUE, chars |-> chars]
SugNonStr == [str |-> FALSE, chars |-> <<>>]

\* The suggestion list carried by the object token "obj": a quoted entry,
\* a prefixed duplicate in another case, a non-string, a blank entry, a
\* 13-word entry and two further entries.
ObjSuggestions ==
  << SugStr(<<"q", "w1", "ws", "ws", "w2", "q">>),
     SugStr(<<"ws", "pfx", "ws", "W1", "ws", "w2">>),
     SugNonStr,
     SugStr(<<"ws", "ws">>),
     SugStr(<<"w1", "ws", "w2", "ws", "w3", "ws", "w1", "ws", "w2", "ws",
              "w3", "ws", "w1", "ws", "w2", "ws", "w3", "ws", "w1", "ws",
              "w2", "ws", "w3", "ws", "w1">>),
     SugStr(<<"w3">>),
     SugStr(<<"w2">>) >>

\* Decoded JSON values. `has` lists the properties the value defines.
JsValue(type, has, op, ex, sg, qs) ==
  [type |-> type, has |-> has, optimizedPrompt |-> op,
   explanations |-> ex, suggestions |-> sg, questions |-> qs]

JsNull == JsValue("null", {}, <<>>, <<>>, <<>>, <<>>)
JsNumber == JsValue("number", {}, <<>>, <<>>, <<>>, <<>>)
JsString == JsValue("string", {}, <<>>, <<>>, <<>>, <<>>)
JsObj ==
  JsValue("object", {"optimizedPrompt", "explanations", "suggestions"},
          <<"X">>, <<"e1">>, ObjSuggestions, <<>>)
JsObjNoSug ==
  JsValue("object", {"optimizedPrompt", "explanations"},
          <<"X">>, <<>>, <<>>, <<>>)
JsObjQuestions ==
  JsValue("object", {"questions"}, <<>>, <<>>, <<>>,
          <<"q1", "q2", "q1", "q3", "q4">>)

\* Tokens that are a complete JSON value on their own
ValueTokens == {"obj", "objn", "objq", "null", "num", "str"}

TokenValue(tok) ==
  CASE tok = "obj" -> JsObj
    [] tok = "objn" -> JsObjNoSug
    [] tok = "objq" -> JsObjQuestions
    [] tok = "null" -> JsNull
    [] tok = "num" -> JsNumber
    [] OTHER -> JsString

\* JSON.parse: surrounding JSON whitespace is skipped; exactly one value
\* must remain, anything else is a SyntaxError (ok = FALSE).
JSONparse(text) ==
  LET body == Trim(text)
  IN IF Len(body) = 1 /\ body[1] \in ValueTokens
       THEN [ok |-> TRUE, value |-> TokenValue(body[1])]
       ELSE [ok |-> FALSE, value |-> JsNull]

(***************************************************************************)
(* Fence stripping as done by the three chained replace() calls and trim()  *)
(***************************************************************************)
\* text.replace(/^```json\s*/i, "")
StripJsonFence(s) ==
  IF Len(s) >= 2 /\ s[1] = "fence" /\ s[2] = "json"
    THEN DropWhileWs(SubSeq(s, 3, Len(s)))
    ELSE s

\* .replace(/^```/, "")
StripLeadingFence(s) ==
  IF s # <<>> /\ Head(s) = "fence" THEN Tail(s) ELSE s

\* .replace(/```$/, "")
StripTrailingFence(s) ==
  IF s # <<>> /\ s[Len(s)] = "fence" THEN Front(s) ELSE s

StripFences(text) ==
  Trim(StripTrailingFence(StripLeadingFence(StripJsonFence(text))))

(***************************************************************************)
(* parseResponse                                                            *)
(***************************************************************************)
NoResponseNote == "No response text provided."
ParseFailedNote == "Unable to parse structured response; using raw output."

\* The same result without the note
FallbackNoNote(op, note) ==
  JsValue("object", {"optimizedPrompt", "explanations"},
          op, <<>>, <<>>, <<>>)

Fallback(op, note) ==
  JsValue("object", {"optimizedPrompt", "explanations"},
          op, <<note>>, <<>>, <<>>)

parseResponse(text) ==
  IF text = <<>>
    THEN Fallback(<<>>, NoResponseNote)
    ELSE LET direct == JSONparse(text)
             stripped == StripFences(text)
             second == JSONparse(stripped)
         IN IF direct.ok THEN direct.value
            ELSE IF second.ok THEN second.value
            ELSE Fallback(IF stripped # <<>> THEN stripped ELSE text,
                          ParseFailedNote)

(***************************************************************************)
(* sanitizeSuggestions                                                      *)
(***************************************************************************)
MAX_SUGGESTIONS == 3
MAX_SUGGESTION_WORDS == 12

RECURSIVE DropLeadingQuotes(_)
DropLeadingQuotes(s) ==
  IF s # <<>> /\ Head(s) = "q" THEN DropLeadingQuotes(Tail(s)) ELSE s

RECURSIVE DropTrailingQuotes(_)
DropTrailingQuotes(s) ==
  IF s # <<>> /\ s[Len(s)] = "q" THEN DropTrailingQuotes(Front(s)) ELSE s

\* t.replace(/^"+|"+$/g, "")
StripQuotes(s) == DropTrailingQuotes(DropLeadingQuotes(s))

\* t.replace(/^\s*(ask the user:|ask:|question:|prompt:)/i, "")
StripPrefix(s) ==
  LET r == DropWhileWs(s)
  IN IF r # <<>> /\ Head(r) = "pfx" THEN Tail(r) ELSE s

\* t.replace(/\s+/g, " ")
RECURSIVE CollapseWs(_)
CollapseWs(s) ==
  IF Len(s) < 2 THEN s
  ELSE IF s[1] = "ws" /\ s[2] = "ws" THEN CollapseWs(Tail(s))
  ELSE <<Head(s)>> \o CollapseWs(Tail(s))

WordCount(s) == Cardinality({i \in 1..Len(s) : s[i] = "ws"}) + 1

\* words.slice(0, n).join(" ") of a string whose words are separated by
\* single spaces
RECURSIVE FirstWords(_, _)
FirstWords(s, n) ==
  IF s = <<>> THEN <<>>
  ELSE IF Head(s) = "ws"
    THEN IF n <= 1 THEN <<>> ELSE <<"ws">> \o FirstWords(Tail(s), n - 1)
  ELSE <<Head(s)>> \o FirstWords(Tail(s), n)

LowerTok(tok) == IF tok = "W1" THEN "w1" ELSE tok

\* t.toLowerCase()
toLowerCase(s) == [i \in 1..Len(s) |-> LowerTok(s[i])]

\* The same without the cut to 12 words
CleanSuggestionUncut(chars) ==
  LET t3 == Trim(StripPrefix(StripQuotes(Trim(chars))))
  IN IF t3 = <<>> THEN <<>> ELSE CollapseWs(t3)

\* The body of the for loop up to the computation of t
CleanSuggestion(chars) ==
  LET t1 == Trim(chars)
      t2 == StripQuotes(t1)
      t3 == Trim(StripPrefix(t2))
      t4 == CollapseWs(t3)
  IN IF t3 = <<>> THEN <<>>
     ELSE IF WordCount(t4) > MAX_SUGGESTION_WORDS
       THEN FirstWords(t4, MAX_SUGGESTION_WORDS)
       ELSE t4

RECURSIVE SanitizeLoop(_, _, _)
SanitizeLoop(rest, cleaned, seen) ==
  IF rest = <<>> THEN cleaned
  ELSE LET s == Head(rest)
           t == CleanSuggestion(s.chars)
           key == toLowerCase(t)
       IN IF ~s.str \/ t = <<>> \/ key \in seen
            THEN SanitizeLoop(Tail(rest), cleaned, seen)
            ELSE IF Len(cleaned) + 1 >= MAX_SUGGESTIONS
              THEN Append(cleaned, t)
              ELSE SanitizeLoop(Tail(rest), Append(cleaned, t),
                                seen \cup {key})

\* `isArray` is FALSE when the property is missing or is not a list
sanitizeSuggestions(isArray, suggestions) ==
  IF ~isArray THEN <<>> ELSE SanitizeLoop(suggestions, <<>>, {})

(***************************************************************************)
(* Error mapping                                                            *)
(***************************************************************************)
\* Raw error messages: the route's own ApiError messages and the messages
\* an upstream failure may carry ("" models a failure without a message).
MsgMissingModelOrKey == "Missing required fields: model or apiKey"
MsgMissingSuggestion ==
  "Missing required parameter: 'selectedSuggestion' is required for the clarify task. Please provide a suggestion to clarify."
MsgMissingClarifyPrompt ==
  "Missing required parameter: 'prompt' is required for the clarify task. Please provide the latest user input as 'prompt'."
MsgMissingAnswers == "Missing answers for refine task."
MsgMissingOptimize ==
  "Missing required fields: provide 'prompt' OR 'previousPrompt' with 'refinementInstruction'"
MsgUnsupportedModel ==
  "Unsupported model. Please use one of: gemini-1.5-flash, gemini-2.0-flash, gemini-2.5-flash"
MsgUnexpected == "An unexpected error occurred."
MsgGenerationFailed == "Model generation failed."
MsgRetriesExhausted == "Model generation failed after multiple retries."

UpMessages ==
  {"", "models/gemini-x is not found", "The model is overloaded",
   "Resource quota exceeded", "Input context too long", "boom"}

\* The substrings tested by getFriendlyErrorMessage that occur in the
\* lower-cased message.
Keywords(raw) ==
  CASE raw = "models/gemini-x is not found" -> {"not found", "models/"}
    [] raw = "The model is overloaded" -> {"overload"}
    [] raw = "Resource quota exceeded" -> {"quota"}
    [] raw = "Input context too long" -> {"context"}
    [] raw = MsgMissingModelOrKey -> {"missing required fields"}
    [] raw = MsgMissingOptimize -> {"missing required fields"}
    [] raw = MsgUnsupportedModel -> {"unsupported model"}
    [] OTHER -> {}

FriendlyUnavailableModel ==
  "The selected AI model is currently unavailable. Please try a different model in Settings or wait a moment."
FriendlyBusy == "The model is currently busy. Please try again in a moment."
FriendlyRate ==
  "You're sending requests too quickly or have hit a quota limit. Please wait and try again."
FriendlyTooLong ==
  "The conversation is too long. Please start a new chat to continue."
FriendlyMissing == "Please provide a prompt and API key to continue."
FriendlyUnsupported ==
  "This model isn't supported. Please choose another model in Settings."
FriendlyGeneric400 ==
  "Your request couldn't be processed. Please check your input and try again."
FriendlyTemporarily ==
  "The service is temporarily unavailable. Please try again later."

getFriendlyErrorMessage(status, raw) ==
  LET kw == Keywords(raw)
  IN IF status = 404 \/ "not found" \in kw \/ "models/" \in kw
       THEN FriendlyUnavailableModel
     ELSE IF status = 503 \/ "overload" \in kw \/ "service unavailable" \in kw
       THEN FriendlyBusy
     ELSE IF status = 429 \/ "rate" \in kw \/ "quota" \in kw
       THEN FriendlyRate
     ELSE IF "context" \in kw \/ "token" \in kw \/ "length" \in kw
       THEN FriendlyTooLong
     ELSE IF status = 400
       THEN IF "missing required fields" \in kw THEN FriendlyMissing
            ELSE IF "unsupported model" \in kw THEN FriendlyUnsupported
            ELSE IF raw # "" THEN raw
            ELSE FriendlyGeneric400
     ELSE FriendlyTemporarily

(***************************************************************************)
(* Request bodies and validation                                            *)
(***************************************************************************)
SUPPORTED_MODELS == {"gemini-1.5-flash", "gemini-2.0-flash", "gemini-2.5-flash"}

\* A check that lets every identifier pass
isValidModelAny(model) == TRUE

isValidModel(model) == model \in SUPPORTED_MODELS

\* String.prototype.trim on the model identifiers of the model
trimModel(model) ==
  IF model = " gemini-2.0-flash " THEN "gemini-2.0-flash" ELSE model

BodyTasks == {"optimize", "clarify", "refine", "summarize", "undefined"}
BodyModels ==
  {"gemini-2.5-flash", " gemini-2.0-flash ", "gemini-pro", "", "undefined"}
BodyAnswers == {"undefined", "empty", "nonempty"}

\* Destructuring defaults of POST
TaskOf(body) == IF body.task = "undefined" THEN "optimize" ELSE body.task
ModelOf(body) ==
  IF body.model = "undefined" THEN "gemini-2.0-flash" ELSE body.model

\* The fields POST reads for the task of a body
FieldsRead(body) ==
  IF TaskOf(body) = "clarify"
    THEN {"prompt", "selectedSuggestion", "previousOptimizedPrompt"}
  ELSE IF TaskOf(body) = "refine"
    THEN {"answers", "previousOptimizedPrompt"}
  ELSE {"prompt", "previousPrompt", "refinementInstruction"}

\* A request body. The text fields are modelled by their truthiness (a
\* missing field and an empty string are both falsy). Fields that POST
\* never reads for the body's task are left out of the body.
Bodies ==
  {b \in [task : BodyTasks, model : BodyModels, apiKey : BOOLEAN,
          prompt : BOOLEAN, previousPrompt : BOOLEAN,
          refinementInstruction : BOOLEAN, selectedSuggestion : BOOLEAN,
          previousOptimizedPrompt : BOOLEAN, answers : BodyAnswers] :
     /\ \A f \in {"prompt", "previousPrompt", "refinementInstruction",
                  "selectedSuggestion", "previousOptimizedPrompt"}
                   \ FieldsRead(b) : ~b[f]
     /\ "answers" \notin FieldsRead(b) => b.answers = "undefined"}

\* A validation that checks the key and the model only
ValidationErrorNoTaskChecks(body) ==
  IF ModelOf(body) = "" \/ ~body.apiKey THEN MsgMissingModelOrKey
  ELSE IF ~isValidModel(trimModel(ModelOf(body))) THEN MsgUnsupportedModel
  ELSE ""

\* The validation part of POST: the message of the ApiError(.., 400) it
\* throws, or "" when the body passes.
ValidationError(body) ==
  LET task == TaskOf(body)
      model == ModelOf(body)
  IN IF model = "" \/ ~body.apiKey THEN MsgMissingModelOrKey
     ELSE IF task = "clarify" /\ ~body.selectedSuggestion
       THEN MsgMissingSuggestion
     ELSE IF task = "clarify" /\ ~body.prompt THEN MsgMissingClarifyPrompt
     ELSE IF task = "refine" /\ body.answers # "nonempty"
       THEN MsgMissingAnswers
     ELSE IF task \notin {"clarify", "refine"}
             /\ ~body.prompt
             /\ ~(body.previousPrompt /\ body.refinementInstruction)
       THEN MsgMissingOptimize
     ELSE IF ~isValidModel(trimModel(model)) THEN MsgUnsupportedModel
     ELSE ""

\* The refinement template as soon as one of the two is there
buildFullPromptEither(body) ==
  IF body.refinementInstruction \/ body.previousPrompt
    THEN "refinement" ELSE "initial"

\* Which prompt template buildFullPrompt returns
buildFullPrompt(body) ==
  IF body.refinementInstruction /\ body.previousPrompt
    THEN "refinement" ELSE "initial"

\* Which CURRENT PROMPT section buildRefineWithAnswersPrompt writes
buildRefineWithAnswersPrompt(body) ==
  IF body.previousOptimizedPrompt
    THEN "refineWithAnswers" ELSE "refineFromScratch"

\* The prompt built by POST for a validated body
BuildContents(body) ==
  LET task == TaskOf(body)
  IN IF task = "clarify" THEN "clarify"
     ELSE IF task = "refine" THEN buildRefineWithAnswersPrompt(body)
     ELSE buildFullPrompt(body)

(***************************************************************************)
(* The external generation capability                                       *)
(***************************************************************************)
\* Status of an upstream failure; 0 models a failure object without a
\* status (error.status is undefined).
UpStatuses == {0, 400, 404, 429, 500, 503}

Leads ==
  {<<>>, <<"ws">>, <<"fence">>, <<"fence", "json", "ws">>,
   <<"ws", "fence", "json", "ws">>, <<"word", "ws">>}
Middles ==
  {<<>>, <<"obj">>, <<"objn">>, <<"objq">>, <<"null">>, <<"num">>,
   <<"str">>, <<"word">>}
Trails ==
  {<<>>, <<"ws">>, <<"ws", "fence">>, <<"ws", "fence", "ws">>}

\* Response texts the capability may return
Texts == {l \o m \o t : l \in Leads, m \in Middles, t \in Trails}

NoText == <<"<no response>">>

(***************************************************************************)
(* State of the API route (one request at a time)                           *)
(***************************************************************************)
VARIABLES
  req,          \* body of the request being served
  pc,           \* "idle", "invoking", "backoff", "done", "failed"
  attempt,      \* loop variable of generateWithRetry
  contents,     \* the prompt POST has built for generateContent
  calls,        \* outbound generateContent calls made for this request
  upErr,        \* last failure thrown by generateContent
  apiError,     \* the ApiError caught by POST
  retryLog,     \* per retry: the status logged and the delay slept
  responseText, \* result.text once generateContent has resolved
  parsedData,   \* parseResponse(responseText) in the optimize/refine branch
  res           \* the HTTP response of POST

routeVars ==
  <<req, pc, attempt, contents, calls, upErr,
    apiError, retryLog, responseText, parsedData, res>>

(***************************************************************************)
(* State of the client (one browser tab)                                    *)
(***************************************************************************)
VARIABLES
  now,           \* Date.now()
  page,          \* mounted page: "home" or "optimize"
  sessionId,     \* params.id of the mounted PromptOptimizer (0 on home)
  messages,      \* PromptOptimizer state `messages`
  sessions,      \* state `sessions` of the mounted page
  qa,            \* qaActive, qaQuestions, qaAnswers, qaSuggestion
  flags,         \* isLoading, isClarifying, isRefiningWithAnswers,
                 \* isStarting; navigating: router.push("/") is under way
  timers,        \* pending setTimeout callbacks of the auto-save effect
  saveTimer,     \* saveTimer.current
  inflight,      \* async handlers awaiting their fetch
  nreq,          \* number of requests issued so far
  nextId,        \* next value of newId()
  chatSessions,  \* localStorage "chat_sessions"
  chat,          \* localStorage "chat:<id>"
  coachingStore, \* localStorage "coaching:<id>"
  removedSessions, \* `removedSessions` of the last auto-save
  lastDone,      \* the request whose fetch resolved last
  mutatedAt,     \* time of the last change of `messages`
  nops           \* number of user gestures so far

storeVars ==
  <<now, page, sessionId, messages, sessions, qa, flags, timers, saveTimer,
    inflight, nreq, nextId, chatSessions, chat, coachingStore,
    removedSessions, lastDone, mutatedAt, nops>>

(***************************************************************************)
(* One call of sanitizeSuggestions                                          *)
(***************************************************************************)
VARIABLES
  san           \* the argument `suggestions`, and `cleaned` once returned

sanVars == <<san>>

vars == <<routeVars, storeVars, sanVars>>

RETRIES == 3
DELAY == 800
RETRIABLE == {429, 500, 503}

NoError == [status |-> 0, message |-> ""]
NoResponse == [status |-> 0, error |-> "", data |-> JsNull]
\* parseResponse has not been called
NoParse == JsValue("<not parsed>", {}, <<>>, <<>>, <<>>, <<>>)
\* No prompt has been built
NoContents == "<none>"
EmptyBody ==
  [task |-> "undefined", model |-> "undefined", apiKey |-> FALSE,
   prompt |-> FALSE, previousPrompt |-> FALSE,
   refinementInstruction |-> FALSE, selectedSuggestion |-> FALSE,
   previousOptimizedPrompt |-> FALSE, answers |-> "undefined"]

InitRoute ==
  /\ req = EmptyBody
  /\ pc = "idle"
  /\ attempt = 0
  /\ contents = NoContents
  /\ calls = 0
  /\ upErr = NoError
  /\ apiError = NoError
  /\ retryLog = <<>>
  /\ responseText = NoText
  /\ parsedData = NoParse
  /\ res = NoResponse

\* new ApiError(message, status)
ApiError(message, status) == [status |-> status, message |-> message]

\* The catch block of POST: the response answering a thrown ApiError
ErrorResponse(err) ==
  [status |-> err.status,
   error |-> getFriendlyErrorMessage(err.status, err.message),
   data |-> JsNull]

\* Mutant of TerminalError: the upstream status is dropped
TerminalErrorDropsStatus(status, message) ==
  ApiError(IF message # "" THEN message ELSE MsgGenerationFailed, 500)

\* The ApiError generateWithRetry throws for a terminal upstream failure
TerminalError(status, message) ==
  ApiError(IF message # "" THEN message ELSE MsgGenerationFailed,
           IF status # 0 THEN status ELSE 500)

\* Mutant of ShouldRetry: the last attempt is given up one call early
ShouldRetryOneFewer(status, att) ==
  status # 0 /\ status \in RETRIABLE /\ att < RETRIES - 1

\* The condition under which generateWithRetry sleeps and tries again
ShouldRetry(status, att) ==
  status # 0 /\ status \in RETRIABLE /\ att < RETRIES

\* The same delay before every retry
RetryDelayConstant(att) == DELAY

\* The retry delay before the next attempt
RetryDelay(att) == DELAY * att

GenericQuestions ==
  <<"What specific outcome do you want?",
    "What measurable benefits should be highlighted?">>

QuestionsResult(qs) ==
  [status |-> 200, error |-> "",
   data |-> JsValue("object", {"questions"}, <<>>, <<>>, <<>>, qs)]

\* parsed.questions || [] ; reading a property of null throws a TypeError
QuestionsOf(v) == IF "questions" \in v.has THEN v.questions ELSE <<>>

\* The clarify branch of POST after a successful call
ClarifyResponse(text) ==
  LET first == JSONparse(IF text = <<>> THEN <<"objn">> ELSE text)
      second == JSONparse(StripFences(text))
  IN IF first.ok /\ first.value.type # "null"
       THEN QuestionsResult(QuestionsOf(first.value))
     ELSE IF second.ok /\ second.value.type # "null"
       THEN QuestionsResult(QuestionsOf(second.value))
     ELSE QuestionsResult(GenericQuestions)

\* The optimize/refine branch of POST after a successful call:
\* { ...parsedData, suggestions: sanitizeSuggestions(parsedData.suggestions) }
\* Reading parsedData.suggestions throws a TypeError when parsedData is null;
\* the catch block answers it as an unexpected error.
OptimizeResponse(text) ==
  LET parsed == parseResponse(text)
  IN IF parsed.type = "null"
       THEN ErrorResponse(ApiError(MsgUnexpected, 500))
       ELSE [status |-> 200, error |-> "",
             data |->
               JsValue("object",
                       (parsed.has \ {"questions"}) \cup {"suggestions"},
                       parsed.optimizedPrompt,
                       parsed.explanations,
                       sanitizeSuggestions("suggestions" \in parsed.has,
                                           parsed.suggestions),
                       <<>>)]

\* POST up to its first outbound call: destructuring, validation, prompt
\* building, and the first generateContent call of generateWithRetry.
POST(body) ==
  /\ pc = "idle"
  /\ req' = body
  /\ upErr' = NoError
  /\ retryLog' = <<>>
  /\ responseText' = NoText
  /\ parsedData' = NoParse
  /\ LET msg == ValidationError(body)
     IN IF msg # ""
          THEN /\ apiError' = ApiError(msg, 400)
               /\ res' = ErrorResponse(ApiError(msg, 400))
               /\ pc' = "failed"
               /\ contents' = NoContents
               /\ attempt' = 0
               /\ calls' = 0
          ELSE /\ apiError' = NoError
               /\ res' = NoResponse
               /\ pc' = "invoking"
               /\ contents' = BuildContents(body)
               /\ attempt' = 1
               /\ calls' = 1
  /\ UNCHANGED <<storeVars, sanVars>>

\* generateContent rejects: the catch block of generateWithRetry
UpstreamFail(status, message) ==
  /\ pc = "invoking"
  /\ upErr' = [status |-> status, message |-> message]
  /\ IF ShouldRetry(status, attempt)
       THEN /\ pc' = "backoff"
            /\ retryLog' = Append(retryLog,
                                  [status |-> status, attempt |-> attempt,
                                   delay |-> RetryDelay(attempt)])
            /\ UNCHANGED <<apiError, res>>
       ELSE /\ pc' = "failed"
            /\ apiError' = TerminalError(status, message)
            /\ res' = ErrorResponse(TerminalError(status, message))
            /\ UNCHANGED retryLog
  /\ UNCHANGED <<req, attempt, contents, calls, responseText, parsedData>>
  /\ UNCHANGED <<storeVars, sanVars>>

\* The backoff timer fires: attempt++ and, while attempt <= retries, the
\* next generateContent call; past the loop the function throws.
RetryAfterBackoff ==
  /\ pc = "backoff"
  /\ attempt' = attempt + 1
  /\ upErr' = NoError
  /\ IF attempt + 1 <= RETRIES
       THEN /\ pc' = "invoking"
            /\ calls' = calls + 1
            /\ UNCHANGED <<apiError, res>>
       ELSE /\ pc' = "failed"
            /\ apiError' = ApiError(MsgRetriesExhausted, 500)
            /\ res' = ErrorResponse(ApiError(MsgRetriesExhausted, 500))
            /\ UNCHANGED calls
  /\ UNCHANGED <<req, contents, retryLog, responseText, parsedData>>
  /\ UNCHANGED <<storeVars, sanVars>>

\* generateContent resolves: the rest of POST
UpstreamOk(text) ==
  /\ pc = "invoking"
  /\ responseText' = text
  /\ parsedData' = IF TaskOf(req) = "clarify" THEN NoParse
                    ELSE parseResponse(text)
  /\ LET r == IF TaskOf(req) = "clarify" THEN ClarifyResponse(text)
              ELSE OptimizeResponse(text)
     IN /\ res' = r
        /\ pc' = IF r.status = 200 THEN "done" ELSE "failed"
        /\ apiError' = IF r.status = 200 THEN NoError
                       ELSE ApiError(MsgUnexpected, 500)
  /\ UNCHANGED <<req, attempt, contents, calls, upErr, retryLog>>
  /\ UNCHANGED <<storeVars, sanVars>>

NextRoute ==
  \/ \E body \in Bodies : POST(body)
  \/ \E status \in UpStatuses, message \in UpMessages :
       UpstreamFail(status, message)
  \/ RetryAfterBackoff
  \/ \E text \in Texts : UpstreamOk(text)

(***************************************************************************)
(* Properties of the API route                                              *)
(***************************************************************************)
\* The invoker has ended in a terminal failure of the outbound call
InvokerFailed == pc = "failed" /\ calls > 0 /\ responseText = NoText

\* The invoker has returned a response text
InvokerReturned == responseText # NoText

\* C1: with maxAttempts = 3, never more than 3 outbound calls are made; a
\* retriable failure (429, 500, 503) is terminal only on the 3rd call, so a
\* capability failing every time with a retriable status is called exactly 3
\* times before the terminal failure; when the invoker returns after k
\* retried failures it has made exactly k + 1 calls (503 then success: 2
\* calls) and the response does not surface the transient failure.
C1_RetryCallCount ==
  /\ calls <= RETRIES
  /\ pc = "backoff" => upErr.status \in RETRIABLE /\ calls < RETRIES
  /\ (InvokerFailed /\ upErr.status \in RETRIABLE) =>
       calls = RETRIES /\ Len(retryLog) = RETRIES - 1
  /\ InvokerReturned =>
       /\ calls = Len(retryLog) + 1
       /\ (Len(retryLog) = 1 /\ retryLog[1].status = 503) =>
            /\ calls = 2
            /\ res.status # 503
            /\ res.error # FriendlyBusy

C1_Witness ==
  /\ InvokerFailed
  /\ calls = RETRIES
  /\ upErr.status = 503
  /\ \A i \in 1..Len(retryLog) : retryLog[i].status = 503

\* C2: a failure with a status outside {429, 500, 503} is never retried (it
\* ends the request on the call that failed, the first call included), and
\* every terminal failure carries the status and message of the last
\* upstream failure (500 and a default message stand in when the failure
\* object has none); the response status of POST is that status.
C2_TerminalKeepsStatus ==
  InvokerFailed =>
    /\ (upErr.status \notin RETRIABLE) => calls = Len(retryLog) + 1
    /\ (upErr.status \notin RETRIABLE /\ retryLog = <<>>) => calls = 1
    /\ apiError.status = (IF upErr.status # 0 THEN upErr.status ELSE 500)
    /\ apiError.message =
         (IF upErr.message # "" THEN upErr.message ELSE MsgGenerationFailed)
    /\ res.status = apiError.status

C2_Witness ==
  /\ InvokerFailed
  /\ upErr.status = 404
  /\ upErr.message = "boom"
  /\ calls = 1
  /\ res.status = 404

\* C10: once the outbound call has returned, the request ends in done with
\* a structured result, whatever the response text; it never ends in failed.
C10_ParsingNeverFails ==
  InvokerReturned => (pc = "done" /\ res.status = 200)

\* The waits so far: the k-th wait follows the k-th failed call and lasts
\* DELAY * k; every failed call but the one that ended the request was
\* followed by a wait
LinearWaits ==
  /\ \A k \in 1..Len(retryLog) :
       /\ retryLog[k].attempt = k
       /\ retryLog[k].status \in RETRIABLE
       /\ retryLog[k].delay = DELAY * k
  /\ Len(retryLog) <= RETRIES - 1
  /\ pc = "backoff" => Len(retryLog) = calls
  /\ pc \in {"invoking", "done"} => Len(retryLog) = calls - 1
  /\ InvokerFailed => Len(retryLog) = calls - 1

\* A call is made only by the step that takes the request or by the step
\* that ends a wait, and a wait begins only when the call in flight fails:
\* there is never a second call while one is in flight
OneCallAtATime ==
  /\ calls' # calls =>
       /\ calls' = calls + 1
       /\ pc \in {"idle", "backoff"}
       /\ pc' = "invoking"
       /\ pc = "backoff" => attempt' = attempt + 1
  /\ (pc' = "backoff" /\ pc # "backoff") =>
       (pc = "invoking" /\ calls' = calls)

\* C24: the wait before retry k + 1 is DELAY * k (800 after the first
\* failure, 1600 after the second, always the same), there is a wait only
\* when another attempt follows, and the next call is made only after the
\* previous one has failed and its wait is over, so that one call at most
\* is in flight.
C24_LinearBackoff == []LinearWaits /\ [][OneCallAtATime]_vars

\* Three failed calls with waits of 800 and 1600 between them
C24_Witness ==
  /\ InvokerFailed
  /\ calls = RETRIES
  /\ Len(retryLog) = 2
  /\ retryLog[1].delay = 800
  /\ retryLog[2].delay = 1600

\* parseResponse has been applied to the response text
Parsed == InvokerReturned /\ parsedData # NoParse

\* C11: whatever the response text, parseResponse returns an object that
\* carries the optimizedPrompt field and an explanations list.
C11_ParserTotality ==
  Parsed =>
    /\ parsedData.type = "object"
    /\ {"optimizedPrompt", "explanations"} \subseteq parsedData.has

\* Leads and trails that hold a fence marker
FencedLeads == {l \in Leads : \E i \in 1..Len(l) : l[i] = "fence"}
FencedTrails == {t \in Trails : \E i \in 1..Len(t) : t[i] = "fence"}

Undecodable(text) ==
  /\ ~JSONparse(text).ok
  /\ ~JSONparse(StripFences(text)).ok

\* C13: when neither the response text nor its fence-stripped form decodes,
\* parseResponse returns the fence-stripped text (the text itself when
\* nothing is left after stripping) as optimizedPrompt with exactly one
\* note in explanations, and POST answers 200 with that prompt and note.
C13_DegradationIsResult ==
  (Parsed /\ Undecodable(responseText)) =>
     /\ parsedData.optimizedPrompt =
          (IF StripFences(responseText) # <<>>
             THEN StripFences(responseText) ELSE responseText)
     /\ parsedData.explanations =
          <<IF responseText = <<>> THEN NoResponseNote ELSE ParseFailedNote>>
     /\ pc = "done"
     /\ res.status = 200
     /\ res.data.optimizedPrompt = parsedData.optimizedPrompt
     /\ res.data.explanations = parsedData.explanations

C13_Witness ==
  /\ Parsed
  /\ Undecodable(responseText)
  /\ StripFences(responseText) \notin {<<>>, responseText}
  /\ res.status = 200
  /\ res.data.optimizedPrompt = StripFences(responseText)
  /\ res.data.explanations = <<ParseFailedNote>>

\* POST has rejected the request before any outbound call
RejectedAsClientError ==
  /\ pc = "failed"
  /\ contents = NoContents
  /\ calls = 0
  /\ retryLog = <<>>
  /\ apiError.status = 400
  /\ res.status = 400

\* C15: a request whose task is given and is none of optimize, clarify and
\* refine is rejected with status 400 and makes no outbound call.
C15_TaskValidation ==
  (pc # "idle" /\ TaskOf(req) \notin {"optimize", "clarify", "refine"}) =>
     RejectedAsClientError

\* C16: a request whose (trimmed) model identifier is not in
\* SUPPORTED_MODELS is rejected with status 400, makes no outbound call and
\* is not retried; a request whose identifier is in the set is never
\* answered with the unsupported-model error.
C16_ModelValidation ==
  pc # "idle" =>
    IF trimModel(ModelOf(req)) \in SUPPORTED_MODELS
      THEN /\ apiError.message # MsgUnsupportedModel
           /\ res.error # FriendlyUnsupported
      ELSE RejectedAsClientError

C16_Witness ==
  /\ req.model = "gemini-pro"
  /\ req.apiKey
  /\ req.prompt
  /\ RejectedAsClientError
  /\ apiError.message = MsgUnsupportedModel
  /\ res.error = FriendlyUnsupported

\* The context the phase of a body requires is not all there
MissingContext(body) ==
  CASE TaskOf(body) = "clarify" ->
         ~body.prompt \/ ~body.selectedSuggestion
    [] TaskOf(body) = "refine" ->
         ~body.previousOptimizedPrompt \/ body.answers # "nonempty"
    [] TaskOf(body) = "optimize" ->
         ~body.prompt /\ ~(body.previousPrompt /\ body.refinementInstruction)
    [] OTHER -> FALSE

\* C17: a clarify request without the instruction or the suggestion, a
\* refine request without the current result or without answers, and an
\* optimize request with neither a prompt nor a complete previous-prompt
\* and refinement-instruction pair are rejected with status 400 before any
\* outbound call.
C17_RequiredContext ==
  (pc # "idle" /\ MissingContext(req)) => RejectedAsClientError

\* The context POST checks for the phase of a body is not all there
MissingCheckedContext(body) ==
  CASE TaskOf(body) = "clarify" ->
         ~body.prompt \/ ~body.selectedSuggestion
    [] TaskOf(body) = "refine" -> body.answers # "nonempty"
    [] TaskOf(body) = "optimize" ->
         ~body.prompt /\ ~(body.previousPrompt /\ body.refinementInstruction)
    [] OTHER -> FALSE

\* C17 (amended): a clarify request without the instruction or the
\* suggestion, a refine request without answers, and an optimize request
\* with neither a prompt nor a complete previous-prompt and
\* refinement-instruction pair are rejected with status 400 before a prompt
\* is built and before any outbound call; a refine request with answers
\* and without the current result is not rejected for that: once key and
\* model pass, its prompt is built from the answers alone.
C17_RequiredContextChecked ==
  pc # "idle" =>
    /\ MissingCheckedContext(req) => RejectedAsClientError
    /\ ( /\ TaskOf(req) = "refine"
         /\ req.answers = "nonempty"
         /\ ~req.previousOptimizedPrompt
         /\ req.apiKey
         /\ trimModel(ModelOf(req)) \in SUPPORTED_MODELS )
       => (contents = "refineFromScratch" /\ calls >= 1)

C17_Witness ==
  /\ TaskOf(req) = "refine"
  /\ req.apiKey
  /\ req.previousOptimizedPrompt
  /\ req.answers = "empty"
  /\ RejectedAsClientError
  /\ apiError.message = MsgMissingAnswers

\* The user-facing messages written out in getFriendlyErrorMessage
FriendlyMessages ==
  {FriendlyUnavailableModel, FriendlyBusy, FriendlyRate, FriendlyTooLong,
   FriendlyMissing, FriendlyUnsupported, FriendlyGeneric400,
   FriendlyTemporarily}

\* C19: after an upstream failure, whatever its status and message, the
\* error text of the response is one of the fixed messages of the route
\* (the user-facing ones, or the default generateWithRetry gives a failure
\* without a message) and never the message of the upstream failure.
C19_NoRawUpstreamError ==
  InvokerFailed =>
    /\ res.error \in FriendlyMessages \cup {MsgGenerationFailed}
    /\ upErr.message # "" => res.error # upErr.message

(***************************************************************************)
(* Client: data                                                             *)
(***************************************************************************)
MAX_SESSIONS == 50
DEBOUNCE_MS == 500

\* Bounds of the client model
StartTime == 30000
TickMs == 250
MaxTime == 31000
MaxRequests == 2
MaxNewSessions == 2
MaxGestures == 3
FirstNewId == MAX_SESSIONS + 1

Msg(role, content) == [role |-> role, content |-> content]
Session(id, title, updatedAt) ==
  [id |-> id, title |-> title, updatedAt |-> updatedAt]

\* Message contents typed by the user and returned by the route
UserContent(rid) ==
  CASE rid = 1 -> "write a blog post"
    [] rid = 2 -> "make it shorter"
    [] rid = 3 -> "add examples"
    [] OTHER -> "hi"
AssistantContent(rid) ==
  CASE rid = 1 -> "optimized prompt 1"
    [] rid = 2 -> "optimized prompt 2"
    [] rid = 3 -> "optimized prompt 3"
    [] OTHER -> "optimized prompt 4"

\* generateSessionName on the contents above: none has a quoted part or a
\* "title:" prefix; a first sentence of 10..60 characters is taken whole,
\* a shorter prompt is cut to its first words; the first letter is
\* capitalised.
generateSessionName(content) ==
  CASE content = "write a blog post" -> "Write a blog post"
    [] content = "make it shorter" -> "Make it shorter"
    [] content = "add examples" -> "Add examples"
    [] content = "hi" -> "Hi"
    [] content = "hello" -> "Hello"
    [] OTHER -> "Untitled Session"

\* Titles a user may type into the rename box ("  " is blank)
TypedTitles == {"My chat", "  "}

Ids(list) == {list[i].id : i \in 1..Len(list)}

\* findIndex(s => s.id === id) + 1, 0 when there is none
IndexOf(list, id) ==
  LET hits == {i \in 1..Len(list) : list[i].id = id}
  IN IF hits = {} THEN 0
     ELSE CHOOSE i \in hits : \A j \in hits : i <= j

LogOf(id) == IF id \in DOMAIN chat THEN chat[id] ELSE <<>>
RemoveKeys(store, ids) == [k \in DOMAIN store \ ids |-> store[k]]

IsPrefix(a, b) == Len(a) <= Len(b) /\ SubSeq(b, 1, Len(a)) = a

NoQa ==
  [qaActive |-> FALSE, qaQuestions |-> <<>>, qaAnswers |-> <<>>,
   qaSuggestion |-> "undefined"]
NoFlags ==
  [isLoading |-> FALSE, isClarifying |-> FALSE,
   isRefiningWithAnswers |-> FALSE, isStarting |-> FALSE,
   navigating |-> FALSE]
NoTimer == [sid |-> 0, msgs |-> <<>>, due |-> 0]
NoDone ==
  [rid |-> 0, kind |-> "none", ok |-> FALSE, sid |-> 0, msgs |-> <<>>,
   durable |-> <<>>, live |-> FALSE]

HasAssistant(msgs) == \E i \in 1..Len(msgs) : msgs[i].role = "assistant"

\* The body a handler posts to the route. handleOptimize sends the
\* refinement pair when isRefinement is set (handleSend sets it when the
\* list has an assistant message, the silent call always) and a previous
\* prompt is at hand: the last assistant or user message, or the input.
Payload(kind, silent, msgs) ==
  LET isRefinement == silent \/ HasAssistant(msgs)
      isValidRefine == isRefinement /\ (msgs # <<>> \/ ~silent)
      pair == kind = "optimize" /\ isValidRefine
  IN [task |-> IF kind \in {"clarify", "refine"} THEN kind ELSE "undefined",
      model |-> IF kind = "home" THEN "gemini-1.5-flash"
                ELSE "gemini-2.5-flash",
      apiKey |-> TRUE,
      prompt |-> (kind = "home" \/ (kind = "optimize" /\ ~pair)
                  \/ (kind = "clarify" /\ msgs # <<>>)),
      previousPrompt |-> pair,
      refinementInstruction |-> pair,
      selectedSuggestion |-> (kind = "clarify"),
      previousOptimizedPrompt |->
        (kind \in {"clarify", "refine"} /\ HasAssistant(msgs)),
      answers |-> IF kind = "refine" THEN "nonempty" ELSE "undefined"]

\* An async handler suspended at its fetch, with the values its closure
\* captured: `messages`, `currentMessages`, `silent`, `sessionId`, the Home
\* page's `sessions`; `durable` records the stored log at the time of issue.
Request(rid, kind, sid, msgs, cur, silent, list) ==
  [rid |-> rid, kind |-> kind, sid |-> sid, msgs |-> msgs, cur |-> cur,
   silent |-> silent, list |-> list, live |-> TRUE, durable |-> LogOf(sid),
   payload |-> Payload(kind, silent, msgs)]

Done(r, ok) ==
  [rid |-> r.rid, kind |-> r.kind, ok |-> ok, sid |-> r.sid,
   msgs |-> r.msgs, durable |-> r.durable, live |-> r.live]

\* A click, a key press or a drop of the user
Gesture == nops < MaxGestures /\ nops' = nops + 1

(***************************************************************************)
(* Client: the auto-save effect of PromptOptimizer                          *)
(***************************************************************************)
\* The list is left in the order it has
SortSessionsNone(list) == list

\* Oldest first
SortSessionsOldestFirst(list) ==
  SortSeq(list, LAMBDA a, b : a.updatedAt < b.updatedAt)

\* updatedSessions.sort((a, b) => b.updatedAt - a.updatedAt): newest first;
\* the sort is stable, as is the insertion sort of SortSeq under a strict
\* order
SortSessions(list) ==
  SortSeq(list, LAMBDA a, b : a.updatedAt > b.updatedAt)

\* insert-or-replace of newEntry in prevSessions
UpdatedSessions(prev, newEntry) ==
  LET existingIndex == IndexOf(prev, newEntry.id)
  IN IF existingIndex > 0
       THEN [prev EXCEPT ![existingIndex] = newEntry]
       ELSE <<newEntry>> \o prev

\* sorted.slice(0, MAX_SESSIONS)
CleanedSessions(sorted) ==
  SubSeq(sorted, 1, IF Len(sorted) > MAX_SESSIONS THEN MAX_SESSIONS
                    ELSE Len(sorted))

\* Mutant of RemovedSessions: nothing is purged
RemovedSessionsNone(sorted) == <<>>

\* sorted.slice(MAX_SESSIONS)
RemovedSessions(sorted) ==
  IF Len(sorted) > MAX_SESSIONS
    THEN SubSeq(sorted, MAX_SESSIONS + 1, Len(sorted))
    ELSE <<>>

\* Title of the index entry written by the auto-save
TitleOf(msgs) ==
  LET users == SelectSeq(msgs, LAMBDA m : m.role = "user")
  IN IF users # <<>> THEN generateSessionName(users[1].content)
     ELSE "New Chat"

\* Mutant of ScheduleSave: the pending timer is not cleared
ScheduleSaveNoClear(ts, st, sid, msgs, t) ==
  ts \cup {[sid |-> sid, msgs |-> msgs, due |-> t + DEBOUNCE_MS]}

\* One run of the effect: clearTimeout(saveTimer.current), then setTimeout
ScheduleSave(ts, st, sid, msgs, t) ==
  (ts \ {st}) \cup {[sid |-> sid, msgs |-> msgs, due |-> t + DEBOUNCE_MS]}

\* setMessages(new) and the effects that follow the re-render. Setting the
\* array that is already the state does not re-render.
SetMessages(new) ==
  IF new = messages
    THEN UNCHANGED <<messages, timers, saveTimer, mutatedAt>>
    ELSE /\ messages' = new
         /\ timers' = ScheduleSave(timers, saveTimer, sessionId, new, now)
         /\ saveTimer' =
              [sid |-> sessionId, msgs |-> new, due |-> now + DEBOUNCE_MS]
         /\ mutatedAt' = now

\* The setTimeout callback of the auto-save effect
Flush(t) ==
  /\ t \in timers
  /\ now >= t.due
  /\ timers' = timers \ {t}
  /\ UNCHANGED nops
  /\ IF t.msgs = <<>>
       THEN UNCHANGED <<sessions, chatSessions, chat, coachingStore,
                        removedSessions>>
       ELSE LET newEntry == Session(t.sid, TitleOf(t.msgs), now)
                sorted == SortSessions(UpdatedSessions(sessions, newEntry))
                removed == RemovedSessions(sorted)
            IN /\ chat' = RemoveKeys((t.sid :> t.msgs) @@ chat, Ids(removed))
               /\ coachingStore' = RemoveKeys(coachingStore, Ids(removed))
               /\ chatSessions' = CleanedSessions(sorted)
               /\ sessions' = CleanedSessions(sorted)
               /\ removedSessions' = removed
  /\ UNCHANGED <<now, page, sessionId, messages, qa, flags, saveTimer,
                 inflight, nreq, nextId, lastDone, mutatedAt>>
  /\ UNCHANGED <<routeVars, sanVars>>

\* Time passes
Tick ==
  /\ ~flags.navigating
  /\ now + TickMs <= MaxTime
  /\ now' = now + TickMs
  /\ UNCHANGED nops
  /\ UNCHANGED <<page, sessionId, messages, sessions, qa, flags, timers,
                 saveTimer, inflight, nreq, nextId, chatSessions, chat,
                 coachingStore, removedSessions, lastDone, mutatedAt>>
  /\ UNCHANGED <<routeVars, sanVars>>

(***************************************************************************)
(* Client: PromptOptimizer handlers                                         *)
(***************************************************************************)
\* Suspended handlers go on updating the state
UnmountedLive(rs) == rs

\* Unmounting the page: state updates of suspended handlers become no-ops
Unmounted(rs) == {[r EXCEPT !.live = FALSE] : r \in rs}

\* Timers left after the cleanup of the auto-save effect
AfterCleanup ==
  IF page = "optimize" THEN timers \ {saveTimer} ELSE timers

\* Session cards the user acts on: the first and the last of the list and
\* the open session
Targets(list) ==
  {list[i].id : i \in {1, Len(list)} \cap (1..Len(list))}
    \cup {id \in {sessionId} : IndexOf(list, id) > 0}

\* Navigation to /optimize/<id>: PromptOptimizer mounts, the load effect
\* reads the index, the message log and the coaching record, and the
\* auto-save effect schedules its first timer.
MountOptimizer(id, index, log, rs) ==
  /\ page' = "optimize"
  /\ sessionId' = id
  /\ sessions' = index
  /\ messages' = log
  /\ qa' = IF id \in DOMAIN coachingStore THEN coachingStore[id] ELSE NoQa
  /\ flags' = NoFlags
  /\ timers' = ScheduleSave(AfterCleanup, NoTimer, id, log, now)
  /\ saveTimer' = [sid |-> id, msgs |-> log, due |-> now + DEBOUNCE_MS]
  /\ inflight' = Unmounted(rs)
  /\ mutatedAt' = now

\* The user opens the card of a session other than the open one (a link
\* to the current URL mounts nothing)
OpenSession(id) ==
  /\ ~flags.navigating
  /\ ~(page = "optimize" /\ id = sessionId)
  /\ MountOptimizer(id, chatSessions, LogOf(id), inflight)
  /\ Gesture
  /\ UNCHANGED <<now, nreq, nextId, chatSessions, chat, coachingStore,
                 removedSessions, lastDone>>
  /\ UNCHANGED <<routeVars, sanVars>>

\* startNewOptimization: router.push(`/optimize/${newId()}`)
NewSession ==
  /\ ~flags.navigating
  /\ nextId < FirstNewId + MaxNewSessions
  /\ MountOptimizer(nextId, chatSessions, LogOf(nextId), inflight)
  /\ nextId' = nextId + 1
  /\ Gesture
  /\ UNCHANGED <<now, nreq, chatSessions, chat, coachingStore,
                 removedSessions, lastDone>>
  /\ UNCHANGED <<routeVars, sanVars>>

\* Link to "/": PromptOptimizer unmounts, Home mounts and reads the index
GoHome ==
  /\ page = "optimize"
  /\ page' = "home"
  /\ sessionId' = 0
  /\ sessions' = chatSessions
  /\ messages' = <<>>
  /\ qa' = NoQa
  /\ flags' = NoFlags
  /\ timers' = AfterCleanup
  /\ saveTimer' = NoTimer
  /\ inflight' = Unmounted(inflight)
  /\ IF flags.navigating THEN UNCHANGED nops ELSE Gesture
  /\ UNCHANGED <<now, nreq, nextId, chatSessions, chat, coachingStore,
                 removedSessions, lastDone, mutatedAt>>
  /\ UNCHANGED <<routeVars, sanVars>>

\* handleSend -> handleOptimize(hasAssistantReply, input), up to the fetch
Send ==
  /\ page = "optimize"
  /\ ~flags.navigating
  /\ nreq < MaxRequests
  /\ LET rid == nreq + 1
         currentMessages == Append(messages, Msg("user", UserContent(rid)))
     IN /\ SetMessages(currentMessages)
        /\ inflight' = inflight \cup
             {Request(rid, "optimize", sessionId, messages, currentMessages,
                      FALSE, <<>>)}
        /\ nreq' = rid
  /\ flags' = [flags EXCEPT !.isLoading = TRUE]
  /\ Gesture
  /\ UNCHANGED <<now, page, sessionId, sessions, qa, nextId, chatSessions,
                 chat, coachingStore, removedSessions, lastDone>>
  /\ UNCHANGED <<routeVars, sanVars>>

\* handleOptimize after a response with response.ok
OptimizeOk(r) ==
  /\ r \in inflight
  /\ r.kind = "optimize"
  /\ inflight' = inflight \ {r}
  /\ lastDone' = Done(r, TRUE)
  /\ UNCHANGED nops
  /\ IF r.live
       THEN /\ SetMessages(Append(r.cur,
                                  Msg("assistant", AssistantContent(r.rid))))
            /\ flags' = [flags EXCEPT !.isLoading = FALSE]
       ELSE UNCHANGED <<messages, timers, saveTimer, mutatedAt, flags>>
  /\ UNCHANGED <<now, page, sessionId, sessions, qa, nreq, nextId,
                 chatSessions, chat, coachingStore, removedSessions>>
  /\ UNCHANGED <<routeVars, sanVars>>

\* handleOptimize after an error response: the catch block reverts
OptimizeFail(r) ==
  /\ r \in inflight
  /\ r.kind = "optimize"
  /\ inflight' = inflight \ {r}
  /\ lastDone' = Done(r, FALSE)
  /\ UNCHANGED nops
  /\ IF r.live
       THEN /\ SetMessages(r.msgs)
            /\ flags' = [flags EXCEPT !.isLoading = FALSE]
       ELSE UNCHANGED <<messages, timers, saveTimer, mutatedAt, flags>>
  /\ UNCHANGED <<now, page, sessionId, sessions, qa, nreq, nextId,
                 chatSessions, chat, coachingStore, removedSessions>>
  /\ UNCHANGED <<routeVars, sanVars>>

\* newTitle.trim() || "Untitled Chat"
NormalizeTitle(typed) == IF typed = "  " THEN "Untitled Chat" ELSE typed

\* sessions.map(s => s.id === id ? { ...s, title } : s)
WithTitle(list, id, title) ==
  [i \in 1..Len(list) |->
     IF list[i].id = id THEN [list[i] EXCEPT !.title = title] ELSE list[i]]

\* sessions.filter(s => s.id !== id)
Without(list, id) == SelectSeq(list, LAMBDA e : e.id # id)

\* SessionCard onRename in the history panel
Rename(id, typed) ==
  /\ page = "optimize"
  /\ ~flags.navigating
  /\ sessions' = WithTitle(sessions, id, NormalizeTitle(typed))
  /\ chatSessions' = WithTitle(sessions, id, NormalizeTitle(typed))
  /\ Gesture
  /\ UNCHANGED <<now, page, sessionId, messages, qa, flags, timers,
                 saveTimer, inflight, nreq, nextId, chat, coachingStore,
                 removedSessions, lastDone, mutatedAt>>
  /\ UNCHANGED <<routeVars, sanVars>>

\* Mutant of DeletedChat: the message log is kept
DeletedChatKept(store, id) == store

\* localStorage.removeItem(`chat:${id}`) of onDelete and deleteSession
DeletedChat(store, id) == RemoveKeys(store, {id})

\* SessionCard onDelete in the history panel; deleting the open session
\* calls router.push("/"), which GoHome completes
Delete(id) ==
  /\ page = "optimize"
  /\ ~flags.navigating
  /\ chatSessions' = Without(sessions, id)
  /\ sessions' = Without(sessions, id)
  /\ chat' = DeletedChat(chat, id)
  /\ flags' = [flags EXCEPT !.navigating = (id = sessionId)]
  /\ Gesture
  /\ UNCHANGED <<now, page, sessionId, messages, qa, timers, saveTimer,
                 inflight, nreq, nextId, coachingStore, removedSessions,
                 lastDone, mutatedAt>>
  /\ UNCHANGED <<routeVars, sanVars>>

(***************************************************************************)
(* Client: Home page handlers                                               *)
(***************************************************************************)
\* text.slice(0, 80) on the contents of the model (all shorter than 80)
SliceTitle(content) == content

\* handleStartFromHome up to the fetch
HomeStart ==
  /\ page = "home"
  /\ ~flags.isStarting
  /\ nreq < MaxRequests
  /\ nextId < FirstNewId + MaxNewSessions
  /\ inflight' = inflight \cup
       {Request(nreq + 1, "home", nextId, <<>>, <<>>, FALSE, sessions)}
  /\ nreq' = nreq + 1
  /\ nextId' = nextId + 1
  /\ flags' = [flags EXCEPT !.isStarting = TRUE]
  /\ Gesture
  /\ UNCHANGED <<now, page, sessionId, messages, sessions, qa, timers,
                 saveTimer, chatSessions, chat, coachingStore,
                 removedSessions, lastDone, mutatedAt>>
  /\ UNCHANGED <<routeVars, sanVars>>

\* handleStartFromHome after a response with res.ok: the log and the index
\* are written and router.push opens the new session
HomeStartOk(r) ==
  /\ r \in inflight
  /\ r.kind = "home"
  /\ LET text == UserContent(r.rid)
         log == <<Msg("user", text),
                  Msg("assistant", AssistantContent(r.rid))>>
         list == <<Session(r.sid, SliceTitle(text), now)>>
                   \o Without(r.list, r.sid)
     IN /\ chat' = (r.sid :> log) @@ chat
        /\ chatSessions' = list
        /\ MountOptimizer(r.sid, list, log, inflight \ {r})
  /\ lastDone' = Done(r, TRUE)
  /\ UNCHANGED nops
  /\ UNCHANGED <<now, nreq, nextId, coachingStore, removedSessions>>
  /\ UNCHANGED <<routeVars, sanVars>>

\* handleStartFromHome after an error response
HomeStartFail(r) ==
  /\ r \in inflight
  /\ r.kind = "home"
  /\ inflight' = inflight \ {r}
  /\ flags' = IF r.live THEN [flags EXCEPT !.isStarting = FALSE] ELSE flags
  /\ lastDone' = Done(r, FALSE)
  /\ UNCHANGED nops
  /\ UNCHANGED <<now, page, sessionId, messages, sessions, qa, timers,
                 saveTimer, nreq, nextId, chatSessions, chat, coachingStore,
                 removedSessions, mutatedAt>>
  /\ UNCHANGED <<routeVars, sanVars>>

\* list.splice(dragIndex, 1) then list.splice(index, 0, moved)
Moved(list, from, to) ==
  LET rest == SubSeq(list, 1, from - 1) \o SubSeq(list, from + 1, Len(list))
  IN SubSeq(rest, 1, to - 1) \o <<list[from]>> \o SubSeq(rest, to, Len(rest))

\* onDrop: the user drags the first card to the end or the last to the top
HomeReorder(dragIndex, index) ==
  /\ page = "home"
  /\ dragIndex \in 1..Len(sessions)
  /\ index \in 1..Len(sessions)
  /\ dragIndex # index
  /\ sessions' = Moved(sessions, dragIndex, index)
  /\ chatSessions' = Moved(sessions, dragIndex, index)
  /\ Gesture
  /\ UNCHANGED <<now, page, sessionId, messages, qa, flags, timers,
                 saveTimer, inflight, nreq, nextId, chat, coachingStore,
                 removedSessions, lastDone, mutatedAt>>
  /\ UNCHANGED <<routeVars, sanVars>>

\* saveRename: the typed title is stored as it is
HomeRename(id, typed) ==
  /\ page = "home"
  /\ sessions' = WithTitle(sessions, id, typed)
  /\ chatSessions' = WithTitle(sessions, id, typed)
  /\ Gesture
  /\ UNCHANGED <<now, page, sessionId, messages, qa, flags, timers,
                 saveTimer, inflight, nreq, nextId, chat, coachingStore,
                 removedSessions, lastDone, mutatedAt>>
  /\ UNCHANGED <<routeVars, sanVars>>

\* deleteSession
HomeDelete(id) ==
  /\ page = "home"
  /\ sessions' = Without(sessions, id)
  /\ chatSessions' = Without(sessions, id)
  /\ chat' = DeletedChat(chat, id)
  /\ Gesture
  /\ UNCHANGED <<now, page, sessionId, messages, qa, flags, timers,
                 saveTimer, inflight, nreq, nextId, coachingStore,
                 removedSessions, lastDone, mutatedAt>>
  /\ UNCHANGED <<routeVars, sanVars>>

(***************************************************************************)
(* Client: clarify / refine flow (coaching state)                           *)
(***************************************************************************)
MAX_QUESTIONS == 4

\* The question lists a clarify response may carry: the route passes on
\* the list of the model's answer, of any length, or its generic questions
ClarifyAnswers ==
  {SubSeq(JsObjQuestions.questions, 1, n) :
     n \in 0..Len(JsObjQuestions.questions)} \cup {GenericQuestions}

\* The list taken over as it arrives
CapQuestionsNone(questions) == questions

\* data.questions.slice(0, 4)
CapQuestions(questions) ==
  SubSeq(questions, 1,
         IF Len(questions) > MAX_QUESTIONS THEN MAX_QUESTIONS
         ELSE Len(questions))

\* No answer slot is created
EmptyAnswersNone(qs) == <<>>

\* new Array(qs.length).fill("")
EmptyAnswers(qs) == [i \in 1..Len(qs) |-> ""]

\* The record is left in the store
clearCoachingStateNone(store, sid) == store

\* localStorage.removeItem(`coaching:${sessionId}`)
clearCoachingState(store, sid) == RemoveKeys(store, {sid})

\* The coaching auto-save effect: the state is stored only while it is
\* active or has questions
SaveCoaching(store, sid, state) ==
  IF state.qaActive \/ state.qaQuestions # <<>>
    THEN (sid :> state) @@ store
    ELSE store

\* The suggestion chip the user clicks: one of the suggestions shown under
\* the assistant reply of the open session
SuggestionOf(sid) ==
  CASE sid = 1 -> "s1"
    [] sid = MAX_SESSIONS - 1 -> "s49"
    [] sid = MAX_SESSIONS -> "s50"
    [] sid = FirstNewId -> "s51"
    [] OTHER -> "s52"

\* handleSuggestionClick up to the fetch
SuggestionClick ==
  /\ page = "optimize"
  /\ ~flags.navigating
  /\ HasAssistant(messages)
  /\ ~flags.isClarifying
  /\ ~flags.isLoading
  /\ nreq < MaxRequests
  /\ qa' = [NoQa EXCEPT !.qaSuggestion = SuggestionOf(sessionId)]
  /\ coachingStore' = SaveCoaching(coachingStore, sessionId, qa')
  /\ flags' = [flags EXCEPT !.isClarifying = TRUE]
  /\ inflight' = inflight \cup
       {Request(nreq + 1, "clarify", sessionId, messages, messages, TRUE,
                <<>>)}
  /\ nreq' = nreq + 1
  /\ Gesture
  /\ UNCHANGED <<now, page, sessionId, messages, sessions, timers,
                 saveTimer, nextId, chatSessions, chat, removedSessions,
                 lastDone, mutatedAt>>
  /\ UNCHANGED <<routeVars, sanVars>>

\* handleSuggestionClick after a response carrying `questions`: no
\* question applies the suggestion through a silent handleOptimize,
\* otherwise the first 4 questions open the question form
ClarifyOk(r, questions) ==
  /\ r \in inflight
  /\ r.kind = "clarify"
  /\ lastDone' = Done(r, TRUE)
  /\ UNCHANGED nops
  /\ LET qs == CapQuestions(questions)
     IN IF ~r.live \/ (qs = <<>> /\ nreq >= MaxRequests)
          THEN /\ inflight' = inflight \ {r}
               /\ UNCHANGED <<qa, flags, coachingStore, nreq>>
        ELSE IF qs = <<>>
          THEN /\ qa' = [qa EXCEPT !.qaSuggestion = "undefined"]
               /\ coachingStore' = SaveCoaching(coachingStore, sessionId, qa')
               /\ flags' = [flags EXCEPT !.isClarifying = FALSE,
                                         !.isLoading = TRUE]
               /\ inflight' = (inflight \ {r}) \cup
                    {Request(nreq + 1, "optimize", r.sid, r.msgs, r.msgs,
                             TRUE, <<>>)}
               /\ nreq' = nreq + 1
        ELSE /\ qa' = [qa EXCEPT !.qaActive = TRUE, !.qaQuestions = qs,
                                 !.qaAnswers = EmptyAnswers(qs)]
             /\ coachingStore' = SaveCoaching(coachingStore, sessionId, qa')
             /\ flags' = [flags EXCEPT !.isClarifying = FALSE]
             /\ inflight' = inflight \ {r}
             /\ UNCHANGED nreq
  /\ UNCHANGED <<now, page, sessionId, messages, sessions, timers,
                 saveTimer, nextId, chatSessions, chat, removedSessions,
                 mutatedAt>>
  /\ UNCHANGED <<routeVars, sanVars>>

\* handleSuggestionClick after an error response
ClarifyFail(r) ==
  /\ r \in inflight
  /\ r.kind = "clarify"
  /\ inflight' = inflight \ {r}
  /\ flags' = IF r.live THEN [flags EXCEPT !.isClarifying = FALSE] ELSE flags
  /\ lastDone' = Done(r, FALSE)
  /\ UNCHANGED nops
  /\ UNCHANGED <<now, page, sessionId, messages, sessions, qa, timers,
                 saveTimer, nreq, nextId, chatSessions, chat, coachingStore,
                 removedSessions, mutatedAt>>
  /\ UNCHANGED <<routeVars, sanVars>>

\* onChange of an answer input
AnswerEdit(idx) ==
  /\ page = "optimize"
  /\ ~flags.navigating
  /\ qa.qaActive
  /\ idx \in 1..Len(qa.qaQuestions)
  /\ qa' = [qa EXCEPT !.qaAnswers =
              [i \in 1..(IF idx > Len(@) THEN idx ELSE Len(@)) |->
                 IF i = idx THEN "yes"
                 ELSE IF i <= Len(@) THEN @[i] ELSE "undefined"]]
  /\ coachingStore' = SaveCoaching(coachingStore, sessionId, qa')
  /\ Gesture
  /\ UNCHANGED <<now, page, sessionId, messages, sessions, flags, timers,
                 saveTimer, inflight, nreq, nextId, chatSessions, chat,
                 removedSessions, lastDone, mutatedAt>>
  /\ UNCHANGED <<routeVars, sanVars>>

\* handleRefineFromQA up to the fetch ("Refine Now")
RefineFromQA ==
  /\ page = "optimize"
  /\ ~flags.navigating
  /\ qa.qaActive
  /\ qa.qaQuestions # <<>>
  /\ ~flags.isRefiningWithAnswers
  /\ nreq < MaxRequests
  /\ flags' = [flags EXCEPT !.isRefiningWithAnswers = TRUE]
  /\ inflight' = inflight \cup
       {Request(nreq + 1, "refine", sessionId, messages, messages, TRUE,
                <<>>)}
  /\ nreq' = nreq + 1
  /\ Gesture
  /\ UNCHANGED <<now, page, sessionId, messages, sessions, qa, timers,
                 saveTimer, nextId, chatSessions, chat, coachingStore,
                 removedSessions, lastDone, mutatedAt>>
  /\ UNCHANGED <<routeVars, sanVars>>

\* handleRefineFromQA after a response with response.ok
RefineOk(r) ==
  /\ r \in inflight
  /\ r.kind = "refine"
  /\ inflight' = inflight \ {r}
  /\ lastDone' = Done(r, TRUE)
  /\ UNCHANGED nops
  /\ coachingStore' = clearCoachingState(coachingStore, r.sid)
  /\ IF r.live
       THEN /\ SetMessages(Append(messages,
                                  Msg("assistant", AssistantContent(r.rid))))
            /\ qa' = NoQa
            /\ flags' = [flags EXCEPT !.isRefiningWithAnswers = FALSE]
       ELSE UNCHANGED <<messages, timers, saveTimer, mutatedAt, qa, flags>>
  /\ UNCHANGED <<now, page, sessionId, sessions, nreq, nextId, chatSessions,
                 chat, removedSessions>>
  /\ UNCHANGED <<routeVars, sanVars>>

\* handleRefineFromQA after an error response
RefineFail(r) ==
  /\ r \in inflight
  /\ r.kind = "refine"
  /\ inflight' = inflight \ {r}
  /\ flags' = IF r.live THEN [flags EXCEPT !.isRefiningWithAnswers = FALSE]
              ELSE flags
  /\ lastDone' = Done(r, FALSE)
  /\ UNCHANGED nops
  /\ UNCHANGED <<now, page, sessionId, messages, sessions, qa, timers,
                 saveTimer, nreq, nextId, chatSessions, chat, coachingStore,
                 removedSessions, mutatedAt>>
  /\ UNCHANGED <<routeVars, sanVars>>

\* Cancel button of the question form
CancelQA ==
  /\ page = "optimize"
  /\ ~flags.navigating
  /\ qa.qaActive
  /\ ~flags.isRefiningWithAnswers
  /\ qa' = NoQa
  /\ coachingStore' = clearCoachingState(coachingStore, sessionId)
  /\ Gesture
  /\ UNCHANGED <<now, page, sessionId, messages, sessions, flags, timers,
                 saveTimer, inflight, nreq, nextId, chatSessions, chat,
                 removedSessions, lastDone, mutatedAt>>
  /\ UNCHANGED <<routeVars, sanVars>>

(***************************************************************************)
(* Specifications                                                           *)
(***************************************************************************)
\* Sessions saved earlier: session i was last saved at i * DEBOUNCE_MS
BgLog == <<Msg("user", "hello"), Msg("assistant", "optimized hello")>>
BgCoaching ==
  [qaActive |-> TRUE, qaQuestions |-> <<"q1", "q2">>,
   qaAnswers |-> <<"", "">>, qaSuggestion |-> "s1"]
BgIndex(n) ==
  [i \in 1..n |->
     Session(n + 1 - i, generateSessionName("hello"),
             (n + 1 - i) * DEBOUNCE_MS)]

\* Sizes of the stored index when the tab is opened
InitSizes == {0, MAX_SESSIONS - 1, MAX_SESSIONS}

\* The Home page of a tab opened on a store holding n earlier sessions, the
\* oldest of which was left with an open question form
InitStoreWith(n) ==
  /\ now = StartTime
  /\ page = "home"
  /\ sessionId = 0
  /\ messages = <<>>
  /\ sessions = BgIndex(n)
  /\ qa = NoQa
  /\ flags = NoFlags
  /\ timers = {}
  /\ saveTimer = NoTimer
  /\ inflight = {}
  /\ nreq = 0
  /\ nextId = FirstNewId
  /\ chatSessions = BgIndex(n)
  /\ chat = [i \in 1..n |-> BgLog]
  /\ coachingStore = [i \in {1} \cap (1..n) |-> BgCoaching]
  /\ removedSessions = <<>>
  /\ lastDone = NoDone
  /\ mutatedAt = 0
  /\ nops = 0

\* sanitizeSuggestions has not been called
SanIdle ==
  san = [isArray |-> FALSE, suggestions |-> <<>>, done |-> FALSE,
         cleaned |-> <<>>]

InitStore == InitRoute /\ SanIdle /\ \E n \in InitSizes : InitStoreWith(n)

NextStore ==
  \/ Tick
  \/ \E t \in timers : Flush(t)
  \/ \E id \in Targets(chatSessions) : OpenSession(id)
  \/ NewSession
  \/ GoHome
  \/ Send
  \/ \E r \in inflight : OptimizeOk(r)
  \/ \E r \in inflight : OptimizeFail(r)
  \/ \E id \in Targets(sessions), typed \in TypedTitles : Rename(id, typed)
  \/ \E id \in Targets(sessions) : Delete(id)
  \/ HomeStart
  \/ \E r \in inflight : HomeStartOk(r)
  \/ \E r \in inflight : HomeStartFail(r)
  \/ \E d \in {1, Len(sessions)}, i \in {1, Len(sessions)} : HomeReorder(d, i)
  \/ \E id \in Targets(sessions), typed \in TypedTitles : HomeRename(id, typed)
  \/ \E id \in Targets(sessions) : HomeDelete(id)
  \/ SuggestionClick
  \/ \E r \in inflight, questions \in ClarifyAnswers :
       ClarifyOk(r, questions)
  \/ \E r \in inflight : ClarifyFail(r)
  \/ \E idx \in {1, MAX_QUESTIONS} : AnswerEdit(idx)
  \/ RefineFromQA
  \/ \E r \in inflight : RefineOk(r)
  \/ \E r \in inflight : RefineFail(r)
  \/ CancelQA

SpecStore == InitStore /\ [][NextStore]_vars

\* One request to the route; the client stays on an empty Home page
InitRequest == InitRoute /\ SanIdle /\ InitStoreWith(0)

SpecRoute == InitRequest /\ [][NextRoute]_vars

\* The route and the client, each followed on its own: the route takes
\* one request of any caller while the tab rests on an empty Home page, and
\* the tab runs while the route is idle
NextApp ==
  \/ \E body \in Bodies :
       /\ nops = 0 /\ nreq = 0 /\ now = StartTime /\ chatSessions = <<>>
       /\ POST(body)
  \/ \E status \in UpStatuses, message \in UpMessages :
       UpstreamFail(status, message)
  \/ RetryAfterBackoff
  \/ \E text \in Texts : UpstreamOk(text)
  \/ /\ pc = "idle"
     /\ NextStore

SpecApp == InitStore /\ [][NextApp]_vars

(***************************************************************************)
(* The timer callback of the auto-save effect on its own                    *)
(***************************************************************************)
\* Most entries of the index that carry the time of the flush
MaxTies == 2

\* An index the callback may find: n earlier sessions, the newest `ties` of
\* them saved at time t, newest first or the other way round (cards can be
\* dragged on the Home page), and the open session absent, first or last
PriorIndex(n, ties, place, reversed, t) ==
  LET others == [i \in 1..n |->
                   IF i <= ties THEN [BgIndex(n)[i] EXCEPT !.updatedAt = t]
                   ELSE BgIndex(n)[i]]
      ordered == IF reversed THEN [i \in 1..n |-> others[n + 1 - i]]
                 ELSE others
      own == Session(FirstNewId, "My chat", DEBOUNCE_MS)
  IN CASE place = "absent" -> ordered
       [] place = "first" -> <<own>> \o ordered
       [] place = "last" -> ordered \o <<own>>

\* The open session has a message list and its timer is due
InitFlush ==
  /\ InitRoute
  /\ SanIdle
  /\ \E n \in {0, 1, 2, MAX_SESSIONS - 1, MAX_SESSIONS},
        ties \in 0..MaxTies,
        place \in {"absent", "first", "last"},
        reversed \in BOOLEAN,
        log \in {<<Msg("user", UserContent(1))>>, BgLog} :
       LET t == [sid |-> FirstNewId, msgs |-> log,
                 due |-> StartTime + DEBOUNCE_MS]
           index == PriorIndex(n, ties, place, reversed, t.due)
       IN /\ ties <= n
          /\ now = t.due
          /\ page = "optimize"
          /\ sessionId = t.sid
          /\ messages = log
          /\ sessions = index
          /\ qa = NoQa
          /\ flags = NoFlags
          /\ timers = {t}
          /\ saveTimer = t
          /\ inflight = {}
          /\ nreq = 0
          /\ nextId = FirstNewId + 1
          /\ chatSessions = index
          /\ chat = [i \in 1..n |-> BgLog]
          /\ coachingStore = [i \in {1} \cap (1..n) |-> BgCoaching]
          /\ removedSessions = <<>>
          /\ lastDone = NoDone
          /\ mutatedAt = StartTime
          /\ nops = 0

NextFlush == \E t \in timers : Flush(t)

SpecFlush == InitFlush /\ [][NextFlush]_vars

(***************************************************************************)
(* sanitizeSuggestions on its own                                           *)
(***************************************************************************)
\* Longest suggestion list passed to sanitizeSuggestions
MaxRawSuggestions == 4

\* Entries of a raw suggestion list: a plain entry, the same words behind
\* a prefix and in another case, a non-string, a blank entry, a 13-word
\* entry, a quoted entry with a double space, a further plain entry, and a
\* quoted prefix with nothing behind it
RawEntries ==
  { SugStr(<<"w1">>),
    SugStr(<<"ws", "pfx", "ws", "W1">>),
    SugNonStr,
    SugStr(<<"ws", "ws">>),
    ObjSuggestions[5],
    SugStr(<<"q", "w2", "ws", "ws", "w3", "q">>),
    SugStr(<<"w3">>),
    SugStr(<<"q", "pfx", "q">>) }

RawLists ==
  UNION {[1..n -> RawEntries] : n \in 0..MaxRawSuggestions}

\* The argument of one call: a list, or a value that is not a list
InitSanitize ==
  /\ InitRoute
  /\ InitStoreWith(0)
  /\ \E isArray \in BOOLEAN, list \in RawLists :
       /\ (~isArray => list = <<>>)
       /\ san = [isArray |-> isArray, suggestions |-> list,
                 done |-> FALSE, cleaned |-> <<>>]

\* The call returns
Sanitize ==
  /\ ~san.done
  /\ san' = [san EXCEPT
               !.done = TRUE,
               !.cleaned = sanitizeSuggestions(san.isArray, san.suggestions)]
  /\ UNCHANGED <<routeVars, storeVars>>

NextSanitize == Sanitize

SpecSanitize == InitSanitize /\ [][NextSanitize]_vars

\* Number of whitespace-delimited words of a string
Words(s) ==
  Cardinality({i \in 1..Len(s) :
                 s[i] # "ws" /\ (i = 1 \/ s[i - 1] = "ws")})

\* Position in the raw list of the first string entry that cleans to the
\* given entry up to case; 0 when there is none
FirstSource(raw, entry) ==
  LET from == {j \in 1..Len(raw) :
                 /\ raw[j].str
                 /\ toLowerCase(CleanSuggestion(raw[j].chars)) =
                      toLowerCase(entry)}
  IN IF from = {} THEN 0
     ELSE CHOOSE j \in from : \A k \in from : j <= k

\* C14: for every argument (a value that is not a list, or a list with
\* non-string, blank, quoted, prefixed, over-long and duplicate entries)
\* sanitizeSuggestions returns at most 3 entries; each is non-empty, has at
\* most 12 words, differs from every other up to case, and is the cleaned
\* form of the first raw entry that yields it, in raw order.
C14_SuggestionBound ==
  san.done =>
    LET out == san.cleaned
        raw == san.suggestions
    IN /\ Len(out) <= MAX_SUGGESTIONS
       /\ ~san.isArray => out = <<>>
       /\ \A i \in 1..Len(out) :
            /\ out[i] # <<>>
            /\ Words(out[i]) >= 1
            /\ Words(out[i]) <= MAX_SUGGESTION_WORDS
            /\ FirstSource(raw, out[i]) # 0
            /\ out[i] = CleanSuggestion(raw[FirstSource(raw, out[i])].chars)
       /\ \A i, j \in 1..Len(out) :
            i < j =>
              /\ toLowerCase(out[i]) # toLowerCase(out[j])
              /\ FirstSource(raw, out[i]) < FirstSource(raw, out[j])

C14_Witness ==
  /\ san.done
  /\ Len(san.suggestions) > MAX_SUGGESTIONS
  /\ Len(san.cleaned) = MAX_SUGGESTIONS
  /\ \E i \in 1..Len(san.suggestions) : ~san.suggestions[i].str
  /\ \E i \in 1..Len(san.cleaned) :
       Words(san.cleaned[i]) = MAX_SUGGESTION_WORDS

(***************************************************************************)
(* Properties of the session store                                          *)
(***************************************************************************)
\* The history panel of PromptOptimizer shows the stored index
SessionsInSync == page = "optimize" => sessions = chatSessions

\* Index entries with the given ids
EntriesOf(list, ids) == {list[i] : i \in {j \in 1..Len(list) : list[j].id \in ids}}

\* What a flush that writes session t.sid may leave behind: at most
\* MAX_SESSIONS entries, taken from the index and the flushed session, only
\* the surplus dropped, nothing dropped that is newer than something kept,
\* and no log or coaching record of a dropped session
EvictionDone(t) ==
  LET before == Ids(chatSessions) \cup {t.sid}
      after == Ids(chatSessions')
      dropped == before \ after
      surplus == IF Cardinality(before) > MAX_SESSIONS
                   THEN Cardinality(before) - MAX_SESSIONS ELSE 0
  IN /\ Len(chatSessions') <= MAX_SESSIONS
     /\ Cardinality(after) = Len(chatSessions')
     /\ after \subseteq before
     /\ Cardinality(dropped) = surplus
     /\ \A d \in EntriesOf(chatSessions, dropped) :
          \A k \in EntriesOf(chatSessions', after) :
            d.updatedAt <= k.updatedAt
     /\ \A id \in dropped :
          id \notin DOMAIN chat' /\ id \notin DOMAIN coachingStore'

\* C3: Eviction at flush. After every flush that writes (the auto-save timer
\* fires with a non-empty message list) the Session Index holds at most 50
\* entries, the entries removed are exactly the oldest by updatedAt beyond
\* the 50 most recent, and neither the message log nor the coaching record
\* of a removed session remains in the store.
C3_EvictionAtFlush ==
  [][\A t \in timers : (Flush(t) /\ t.msgs # <<>>) => EvictionDone(t)]_vars

\* A flush has evicted the oldest session, the one that had a coaching
\* record, and its log and coaching record are gone
C3_Witness ==
  /\ removedSessions # <<>>
  /\ removedSessions[1].id = 1
  /\ Len(chatSessions) = MAX_SESSIONS
  /\ 1 \notin Ids(chatSessions)
  /\ 1 \notin DOMAIN chat
  /\ 1 \notin DOMAIN coachingStore

\* C4: Capacity after any write. After any operation that persists the
\* Session Index (flush, rename, delete, reorder, home quick-start) the
\* persisted index holds at most 50 entries.
C4_CapacityAfterWrite == Len(chatSessions) <= MAX_SESSIONS

\* C5: Idempotent flush. A flush that runs while the message list equals the
\* payload last written for the session writes nothing: the message log and
\* the index, the session's updatedAt included, stay as they are.
C5_IdempotentFlush ==
  [][\A t \in timers :
       (Flush(t) /\ t.msgs # <<>> /\ LogOf(t.sid) = t.msgs)
         => (chat' = chat /\ chatSessions' = chatSessions)]_vars

\* At most one timer is pending, and it is the one scheduled by the most
\* recent change of the open session's message list
OnePendingTimer ==
  /\ Cardinality(timers) <= 1
  /\ \A t \in timers :
       /\ page = "optimize"
       /\ t = saveTimer
       /\ t.sid = sessionId
       /\ t.msgs = messages
       /\ t.due = mutatedAt + DEBOUNCE_MS

\* A flush runs 500ms or more after the most recent change and writes the
\* message list as it stands, not one that was superseded
FlushAfterQuietPeriod ==
  \A t \in timers :
    Flush(t) =>
      /\ now >= mutatedAt + DEBOUNCE_MS
      /\ t.msgs = messages
      /\ t.msgs # <<>> => LogOf(t.sid)' = messages

\* C6: Trailing-edge debounce. There is never more than one pending flush
\* timer for the open session; every change of the message list cancels the
\* pending timer and schedules a new one, so a flush happens only once 500ms
\* have passed since the most recent change and never for a message list
\* that was superseded within the window.
C6_TrailingEdgeDebounce ==
  []OnePendingTimer /\ [][FlushAfterQuietPeriod]_vars

\* A new session got its reply inside the quiet period of the user message;
\* the one flush that followed wrote both messages
C6_Witness ==
  /\ page = "optimize"
  /\ sessionId >= FirstNewId
  /\ Len(messages) = 2
  /\ mutatedAt > StartTime
  /\ mutatedAt < StartTime + DEBOUNCE_MS
  /\ timers = {}
  /\ LogOf(sessionId) = messages

\* C7: Delete purges everything. After the user deletes a session the index
\* has no entry for its id, no message log and no coaching record of that id
\* remains, and the other sessions' entries, logs and coaching records are
\* unchanged.
C7_DeletePurges ==
  [][\A id \in Ids(sessions) :
       (Delete(id) \/ HomeDelete(id)) =>
         /\ id \notin Ids(chatSessions')
         /\ id \notin DOMAIN chat'
         /\ id \notin DOMAIN coachingStore'
         /\ chatSessions' = Without(chatSessions, id)
         /\ \A k \in DOMAIN chat \ {id} :
              k \in DOMAIN chat' /\ chat'[k] = chat[k]
         /\ \A k \in DOMAIN coachingStore \ {id} :
              k \in DOMAIN coachingStore' /\ coachingStore'[k] = coachingStore[k]
    ]_vars

\* C8: Failed request leaves the session untouched. Once the only optimize
\* request of a session has ended in an error and every timer has fired, the
\* message list in memory and the durable message log both equal what they
\* were when the request was issued.
C8_FailedRequestUntouched ==
  ( /\ lastDone.kind = "optimize"
    /\ ~lastDone.ok
    /\ lastDone.live
    /\ nreq = 1
    /\ inflight = {}
    /\ timers = {}
    /\ page = "optimize"
    /\ sessionId = lastDone.sid
    /\ ~flags.navigating )
  => ( /\ messages = lastDone.msgs
       /\ LogOf(lastDone.sid) = lastDone.durable )

\* C9: Concurrent requests on one session. The completion of a request only
\* appends to the message list: every message that was in the list stays,
\* in its place, so that of two requests in flight both results are present
\* in the order of completion.
C9_AppendOnly ==
  [][\A r \in inflight :
       (r.live /\ (OptimizeOk(r) \/ RefineOk(r)))
         => IsPrefix(messages, messages')]_vars

\* The question form never holds more than 4 questions
QuestionsCapped == Len(qa.qaQuestions) <= MAX_QUESTIONS

\* A clarify response with questions opens the form with the first 4 of
\* them, each as it arrived
QuestionsPassedThrough ==
  \A r \in inflight, questions \in ClarifyAnswers :
    (ClarifyOk(r, questions) /\ r.live /\ questions # <<>>) =>
       /\ qa'.qaActive
       /\ IsPrefix(qa'.qaQuestions, questions)
       /\ Len(qa'.qaQuestions) =
            (IF Len(questions) > MAX_QUESTIONS THEN MAX_QUESTIONS
             ELSE Len(questions))

C20_SessionCreation ==
  \A id \in Ids(chatSessions) \cup DOMAIN chat :
    id >= FirstNewId => HasAssistant(LogOf(id))

\* At most 4 questions, and as many answers as questions when there are
\* both
CoachingShape(state) ==
  /\ Len(state.qaQuestions) <= MAX_QUESTIONS
  /\ (state.qaQuestions # <<>> /\ state.qaAnswers # <<>>) =>
       Len(state.qaAnswers) = Len(state.qaQuestions)

\* A clarify result opens the form with one empty answer per question
AnswersStartEmpty ==
  \A r \in inflight, questions \in ClarifyAnswers :
    (ClarifyOk(r, questions) /\ r.live /\ questions # <<>>) =>
       /\ Len(qa'.qaAnswers) = Len(qa'.qaQuestions)
       /\ \A i \in 1..Len(qa'.qaAnswers) : qa'.qaAnswers[i] = ""

\* C21: in every state (after a clarify result, an answer edit, a restore
\* from the store, a completion or a cancel) the coaching state in memory
\* and every stored coaching record have at most 4 questions and, when
\* questions and answers are both non-empty, as many answers as questions;
\* a clarify result starts every answer as the empty string.
C21_CoachingShape ==
  /\ [](/\ CoachingShape(qa)
        /\ \A id \in DOMAIN coachingStore : CoachingShape(coachingStore[id]))
  /\ [][AnswersStartEmpty]_vars

\* The last of 4 questions has been answered, the first has not, and the
\* state is stored
C21_Witness ==
  /\ qa.qaActive
  /\ Len(qa.qaQuestions) = MAX_QUESTIONS
  /\ Len(qa.qaAnswers) = MAX_QUESTIONS
  /\ qa.qaAnswers[1] = ""
  /\ qa.qaAnswers[MAX_QUESTIONS] = "yes"
  /\ sessionId \in DOMAIN coachingStore
  /\ coachingStore[sessionId] = qa

\* An active coaching state, in memory or stored, has a question
ActiveHasQuestions ==
  /\ qa.qaActive => qa.qaQuestions # <<>>
  /\ \A id \in DOMAIN coachingStore :
       coachingStore[id].qaActive => coachingStore[id].qaQuestions # <<>>

\* The state in memory goes from inactive to active only when a clarify
\* response with a question arrives, or when a session is opened whose
\* stored record is active
ActivatedByClarify ==
  (~qa.qaActive /\ qa'.qaActive) =>
     \/ \E r \in inflight, questions \in ClarifyAnswers \ {<<>>} :
          ClarifyOk(r, questions)
     \/ /\ <<page, sessionId>>' # <<page, sessionId>>
        /\ sessionId' \in DOMAIN coachingStore
        /\ qa' = coachingStore[sessionId']

\* The state of the next state is inactive and empty and the session has
\* no stored record
ClearedAfter(sid) ==
  /\ ~qa'.qaActive
  /\ qa'.qaQuestions = <<>>
  /\ qa'.qaAnswers = <<>>
  /\ sid \notin DOMAIN coachingStore'

\* The refine request of the mounted session succeeds, or the user cancels
ClearedOnCompleteOrCancel ==
  /\ \A r \in inflight : (RefineOk(r) /\ r.live) => ClearedAfter(r.sid)
  /\ CancelQA => (ClearedAfter(sessionId) /\ messages' = messages)

\* C22: the coaching state becomes active only when a clarify response
\* carries at least one question (a stored active state is shown again when
\* its session is opened); after a successful refine with the answers, and
\* after a cancel, the state in memory is inactive with no questions and no
\* answers and the store holds no coaching record of the session; a cancel
\* leaves the message list as it is.
C22_CoachingLifecycle ==
  /\ []ActiveHasQuestions
  /\ [][ActivatedByClarify]_vars
  /\ [][ClearedOnCompleteOrCancel]_vars

\* The question form of the oldest session has been cancelled
C22_Witness ==
  /\ page = "optimize"
  /\ sessionId = 1
  /\ nreq = 0
  /\ messages = BgLog
  /\ qa = NoQa
  /\ 1 \in Ids(chatSessions)
  /\ 1 \notin DOMAIN coachingStore

\* The route builds the refinement template exactly for a body holding
\* both previousPrompt and refinementInstruction
TemplateByPair ==
  (pc # "idle" /\ TaskOf(req) \notin {"clarify", "refine"}
     /\ contents # NoContents) =>
    contents = (IF req.previousPrompt /\ req.refinementInstruction
                  THEN "refinement" ELSE "initial")

\* A body posted by handleOptimize or by the Home page holds the pair or
\* the prompt, and the pair only when the handler's message list has an
\* assistant message
PairNeedsReply ==
  \A r \in inflight :
    r.kind \in {"optimize", "home"} =>
      /\ r.payload.previousPrompt = r.payload.refinementInstruction
      /\ r.payload.prompt = ~r.payload.previousPrompt
      /\ r.payload.previousPrompt => HasAssistant(r.msgs)

\* C23: for an optimize request the route uses the refinement template
\* exactly when previousPrompt and refinementInstruction are both non-empty
\* and the initial template in every other case, a prompt with only one of
\* the two included; the client posts the pair only when the session has an
\* assistant reply.
C23_TemplateSelection == TemplateByPair /\ PairNeedsReply

\* A prompt with a previous prompt and no refinement instruction got the
\* initial template
C23_Witness ==
  /\ pc = "done"
  /\ TaskOf(req) = "optimize"
  /\ req.prompt
  /\ req.previousPrompt
  /\ ~req.refinementInstruction
  /\ contents = "initial"

\* Newest first
Descending(list) ==
  \A i, j \in 1..Len(list) :
    i < j => list[i].updatedAt >= list[j].updatedAt

\* The index a flush of timer t leaves: one entry of the flushed session,
\* named after its first user message and dated now, the list newest
\* first, every other entry as it was
IndexAfterFlush(t) ==
  LET own == {i \in 1..Len(chatSessions') : chatSessions'[i].id = t.sid}
      users == {i \in 1..Len(t.msgs) : t.msgs[i].role = "user"}
      first == CHOOSE i \in users : \A j \in users : i <= j
  IN /\ Cardinality(own) = 1
     /\ \A i \in own :
          /\ chatSessions'[i].updatedAt = now
          /\ users # {} =>
               chatSessions'[i].title =
                 generateSessionName(t.msgs[first].content)
     /\ Descending(chatSessions')
     /\ \A i \in 1..Len(chatSessions') :
          chatSessions'[i].id # t.sid =>
            \E j \in 1..Len(chatSessions) : chatSessions[j] = chatSessions'[i]

\* C25: Index after flush. After every flush that writes, the Session Index
\* has exactly one entry of the flushed session, its title derived from the
\* session's first user message and its updatedAt the flush time, the whole
\* index is ordered by updatedAt descending, and the entries of the other
\* sessions keep their title and updatedAt.
C25_IndexAfterFlush ==
  [][\A t \in timers : (Flush(t) /\ t.msgs # <<>>) => IndexAfterFlush(t)]_vars

\* The oldest of the saved sessions was opened and flushed: it now leads
\* the index under the title of its first user message
C25_Witness ==
  /\ page = "optimize"
  /\ sessionId = 1
  /\ timers = {}
  /\ Len(chatSessions) >= MAX_SESSIONS - 1
  /\ chatSessions[1].id = 1
  /\ chatSessions[1].updatedAt >= StartTime + DEBOUNCE_MS
  /\ chatSessions[1].title = generateSessionName(chat[1][1].content)
  /\ chatSessions[2].updatedAt < StartTime

\* Titles only a rename can give
RenamedTitles == {typed \in TypedTitles : NormalizeTitle(typed) = typed}

\* A flush of a session that carries a title given by a rename leaves the
\* title as it is
RenameKept ==
  \A t \in timers :
    (Flush(t) /\ t.msgs # <<>>) =>
      \A i \in 1..Len(chatSessions) :
        (chatSessions[i].id = t.sid /\ chatSessions[i].title \in RenamedTitles)
          => \E j \in 1..Len(chatSessions') :
               /\ chatSessions'[j].id = t.sid
               /\ chatSessions'[j].title = chatSessions[i].title

\* A rename sets the title of the one entry and nothing else
RenameFrame ==
  \A id \in Ids(sessions), typed \in RenamedTitles :
    (Rename(id, typed) \/ HomeRename(id, typed)) =>
      /\ Len(chatSessions') = Len(chatSessions)
      /\ \A i \in 1..Len(chatSessions) :
           chatSessions'[i] =
             IF chatSessions[i].id = id
               THEN [chatSessions[i] EXCEPT !.title = typed]
               ELSE chatSessions[i]
      /\ chat' = chat

\* C26: Rename is durable. A session renamed to a non-blank title keeps that
\* title in the Session Index across all later flushes of the session until
\* it is renamed again, and the rename itself changes only that entry's
\* title: updatedAt, the order of the index and every message log stay.
C26_RenameDurable == [][RenameKept /\ RenameFrame]_vars

\* Sessions that enter the index or get a message log in a step
Entering ==
  (Ids(chatSessions') \ Ids(chatSessions)) \cup (DOMAIN chat' \ DOMAIN chat)

\* A session enters the index or gets a log only as the session that is
\* open after the step (the flush of the open session, the start of a new
\* one from the Home page), and not while the page is being left because
\* the open session was deleted: no timer was scheduled since the delete
\* (Tick and Send wait for the navigation), so the log a flush writes then
\* is the one from before the delete
DeletedStaysDeleted ==
  \A id \in Entering : id = sessionId' /\ ~flags.navigating

\* C27: Delete is final. A deleted session does not come back into the
\* Session Index and gets no message log again unless a message is appended
\* to it after the delete; a flush timer that was pending for the open
\* session when it was deleted does not re-create it.
C27_DeleteFinal == [][DeletedStaysDeleted]_vars

\* The suggestion of a coaching state belongs to session sid
OwnCoaching(state, sid) ==
  state.qaSuggestion \in {"undefined", SuggestionOf(sid)}

\* What is shown and what is stored belongs to the session it is shown or
\* stored under
CoachingInPlace ==
  /\ page = "optimize" => OwnCoaching(qa, sessionId)
  /\ \A k \in DOMAIN coachingStore : OwnCoaching(coachingStore[k], k)

\* A record is written only under the open session, by a handler of that
\* session, and is the state shown; a session that is opened shows its own
\* record or none
CoachingWrittenInPlace ==
  /\ \A k \in DOMAIN coachingStore' :
       (k \notin DOMAIN coachingStore \/ coachingStore'[k] # coachingStore[k])
         => /\ page = "optimize"
            /\ k = sessionId
            /\ sessionId' = sessionId
            /\ coachingStore'[k] = qa'
            /\ \A r \in inflight \ inflight' : r.sid = k
  /\ \A r \in inflight \ inflight' :
       (r.kind \in {"clarify", "refine"} /\ qa' # qa) => r.sid = sessionId
  /\ (page' = "optimize" /\ (page # "optimize" \/ sessionId' # sessionId)) =>
       qa' = IF sessionId' \in DOMAIN coachingStore
               THEN coachingStore[sessionId'] ELSE NoQa

\* C28: Coaching state stays with its session. A coaching record is written
\* only under the id of the session in which its clarify flow was started;
\* opening session B while session A has an active question form never
\* stores A's questions, answers or suggestion under B and never shows them
\* as B's.
C28_CoachingStaysWithSession ==
  []CoachingInPlace /\ [][CoachingWrittenInPlace]_vars

\* The question form of a new session is open and stored, and the record
\* of the oldest session is still its own
C28_Witness ==
  /\ page = "optimize"
  /\ sessionId >= FirstNewId
  /\ qa.qaActive
  /\ qa.qaSuggestion = SuggestionOf(sessionId)
  /\ sessionId \in DOMAIN coachingStore
  /\ coachingStore[sessionId] = qa
  /\ 1 \in DOMAIN coachingStore
  /\ coachingStore[1].qaSuggestion = SuggestionOf(1)

\* The open session is left: another one is opened or the page is left
LeavesSession ==
  /\ page = "optimize"
  /\ ~flags.navigating
  /\ page' # "optimize" \/ sessionId' # sessionId

\* Leaving a session unmounts its component: the message list in memory is
\* dropped and the cleanup of the auto-save effect clears the pending
\* timer, so a message that is not in the durable log by then never gets
\* there. Every appended message is written in the end only if no session
\* is left while its list differs from its log.
NothingDroppedUnsaved ==
  LeavesSession => (messages = <<>> \/ LogOf(sessionId) = messages)

\* C29: No lost writes. Every message appended to the message list in
\* memory is written to the durable log of its session in the end, also
\* when the user opens another session or leaves the page before the 500 ms
\* quiet period is over.
C29_NoLostWrites == [][NothingDroppedUnsaved]_vars

\* The flushed session is in the index and its log is the one flushed
OwnSessionKept(t) ==
  /\ t.sid \in Ids(chatSessions')
  /\ t.sid \in DOMAIN chat'
  /\ chat'[t.sid] = t.msgs

\* C30: A flush never evicts its own session. Whenever a flush writes
\* session S, the entry of S is in the Session Index after the flush and
\* the message log of S is in the store, whatever the index held before: a
\* full index of 50 other sessions, entries whose updatedAt equals the time
\* of the flush.
C30_FlushKeepsOwnSession ==
  [][\A t \in timers : (Flush(t) /\ t.msgs # <<>>) => OwnSessionKept(t)]_vars

\* The index held 50 other sessions, two of them saved at the time of the
\* flush: the flushed session leads the index, the oldest one was evicted
C30_Witness ==
  /\ timers = {}
  /\ Len(chatSessions) = MAX_SESSIONS
  /\ chatSessions[1].id = FirstNewId
  /\ chatSessions[1].updatedAt = now
  /\ chatSessions[3].updatedAt = now
  /\ FirstNewId \in DOMAIN chat
  /\ Len(removedSessions) = 1
  /\ removedSessions[1].id = 1
====
